---- MODULE Spec2Model ----
(***************************************************************************)
(* Model of scripts/scrape_metadata.py: the fetch / cache / aggregate      *)
(* pipeline of the OWASP metadata scraper.                                 *)
(*                                                                         *)
(* Python values are modelled as records tagged with a "kind" field, so    *)
(* that values of different Python types stay comparable:                  *)
(*   None            [kind |-> "none"]                                     *)
(*   str             [kind |-> "str",  text |-> "..."]                     *)
(*   int (yaml key)  [kind |-> "int",  text |-> "1"]                       *)
(*   datetime.date   [kind |-> "date", text |-> "2020-01-01"]              *)
(* A dict is a set of [k |-> key, v |-> value] pairs with distinct keys.   *)
(* A document body is a sequence of lines; an empty sequence is "".        *)
(***************************************************************************)
EXTENDS Integers, Sequences, FiniteSets, TLC

VARIABLES
    remote,         \* the organisation on the code host: its repositories and
                    \* the documents they can serve
    now,            \* the latest reading of datetime.now(timezone.utc), in seconds
    cache,          \* the files of CACHE_DIR: path -> file state
    run,            \* number of times main() has been started
    mainpc,         \* position of the main thread
    task,           \* one future per submitted repository
    collected,      \* futures already yielded by as_completed
    all_metadata,   \* main: list of flattened rows
    all_keys,       \* main: front-matter field -> count
    sidebar_keys,   \* main: sidebar field -> count
    reports,        \* the files under data/ written by the last run
    produced,       \* history: record returned by the latest cache-miss scan
    kin,            \* cache_path arguments under test (SpecKey)
    kout,           \* cache_path results under test (SpecKey)
    listing,        \* one call of fetch_repos_from_org (SpecList)
    pool,           \* the calls and threads of the ThreadPoolExecutor (SpecPool)
    sidebar         \* sidebar texts and what is extracted from them (SpecSidebar)

vars == <<remote, now, cache, run, mainpc, task, collected, all_metadata, all_keys,
          sidebar_keys, reports, produced, kin, kout, listing, pool, sidebar>>

-----------------------------------------------------------------------------
(* Bounds of the model *)

\* number of times the script is run against the same cache directory
MaxRuns == 2

\* number of listing pages whose answer is chosen freely
MaxPages == 3

\* largest number of repositories submitted to the pool
MaxSubmitted == 22

\* number of lines of the leaders.md texts that are enumerated
MaxLines == 3

-----------------------------------------------------------------------------
(* Program constants *)

ORGS == {"OWASP"}
CACHE_TTL_HOURS == 24
max_workers == 20
TTL == CACHE_TTL_HOURS * 3600
BRANCHES == <<"main", "master">>

-----------------------------------------------------------------------------
(* Python values *)

None == [kind |-> "none"]
Str(s) == [kind |-> "str", text |-> s]
Num(s) == [kind |-> "int", text |-> s]
Date(s) == [kind |-> "date", text |-> s]
Text(t) == [kind |-> "text", text |-> t]
Bool(b) == [kind |-> "bool", text |-> IF b THEN "True" ELSE "False"]
List(items) == [kind |-> "list", items |-> items]
\* a dict that is a value inside a list
Dict(d) == [kind |-> "dict", d |-> d]

Keys(d) == {p.k : p \in d}
Get(d, key) == (CHOOSE p \in d : p.k = key).v
\* dict.get(key, default)
GetOr(d, key, default) == IF key \in Keys(d) THEN Get(d, key) ELSE default

\* mutant of Update: an entry that is there already is kept
Update_keep_existing(d, other) == d \cup {p \in other : p.k \notin Keys(d)}

\* dict.update(other): entries of other replace entries with the same key
Update(d, other) == {p \in d : p.k \notin Keys(other)} \cup other

-----------------------------------------------------------------------------
(* Document bodies *)

Dash == [t |-> "---"]
KV(k, v) == [t |-> "kv", k |-> k, v |-> v]
Item(s) == [t |-> "item", text |-> s]
Bad == [t |-> "bad"]
Prose(s) == [t |-> "prose", text |-> s]

\* lines of a sidebar document
Heading(marks, title) == [t |-> "heading", marks |-> marks, title |-> title]
Mailto(addr) == [scheme |-> "mailto", host |-> "", url |-> addr]
Url(host, url) == [scheme |-> "https", host |-> host, url |-> url]
Link(name, target) == [name |-> name, target |-> target]
\* "* [name](target)", "- [name](target)" and "see [name](target)."
Bullet(link) == [t |-> "bullet", link |-> link]
Dashed(link) == [t |-> "dashed", link |-> link]
Inline(link) == [t |-> "inline", link |-> link]

IndexTitle == <<Dash, KV(Str("title"), Str("OWASP Project")), Dash, Prose("Welcome")>>
IndexIntKey == <<Dash, KV(Num("1"), Str("x")), Dash>>
IndexDate == <<Dash, KV(Str("date"), Date("2020-01-01")), Dash>>
IndexList == <<Dash, Item("a"), Dash>>
\* title: "", tags: [], draft: false, pitch: (nothing), level: 2
IndexValues ==
    <<Dash, KV(Str("title"), Str("")), KV(Str("tags"), List(<<>>)),
      KV(Str("draft"), Bool(FALSE)), KV(Str("pitch"), None),
      KV(Str("level"), Num("2")), Dash>>
\* level: 0
IndexZero == <<Dash, KV(Str("level"), Num("0")), Dash>>
\* repo: elsewhere/project, archived: true
IndexRepo ==
    <<Dash, KV(Str("repo"), Str("elsewhere/project")),
      KV(Str("archived"), Bool(TRUE)), Dash>>
IndexBad == <<Dash, Bad, Dash>>
InfoMIT == <<Prose("MIT License")>>
LeadersGPL == <<Prose("GPL v3"), Prose("GPL")>>

JaneMail == Link("Jane Doe", Mailto("jane@example.org"))
JanePage == Link("Jane Doe", Url("x.org", "https://x.org/jane"))
SamPage == Link("Sam Roe", Url("x.org", "https://x.org/sam"))
SamMail == Link("Sam Roe", Mailto("sam@example.org"))
RepoLink == Link("Repo Link", Url("github.com", "https://github.com/x"))

\* an info.md with a leaders section of its own
InfoLeaders ==
    <<Heading("##", "Leaders"), Bullet(SamPage), Bullet(JaneMail), Bullet(SamPage),
      Bullet(JanePage), Bullet(RepoLink), Dashed(SamMail), Prose("MIT License")>>

\* an info.md that has something for every field but the leaders
InfoFull ==
    <<Prose("Lab Project"), Prose("Flagship Project"),
      Prose("<i class=\"fas fa-code\"></i>"), Prose("Defender"), Prose("Builder"),
      Inline(Link("X", Url("x.com", "https://x.com/owasp"))),
      Inline(Link("Twitter", Url("twitter.com", "https://twitter.com/owasp"))),
      Bullet(Link("Download PDF", Url("x.org", "https://x.org/a.pdf"))),
      Heading("###", "Code Repository"), Bullet(RepoLink),
      Heading("#", "Notes"), Dashed(Link("GitHub", Url("github.com", "https://github.com/y"))),
      Heading("##", "Other"), Inline(Link("GitHub", Url("github.com", "https://github.com/z"))),
      Prose("Apache 2.0")>>

-----------------------------------------------------------------------------
(* Cache Store: cache_path, save_cache, load_cache *)

\* mutant of cache_path: the repository name is left out of the file name
cache_path_owner_only(owner, repo) == owner \o ".json"

\* f"{owner}__{repo}.json" under CACHE_DIR
cache_path(owner, repo) == owner \o "__" \o repo \o ".json"

\* f"{owner}/{repo}"
repo_id(owner, repo) == owner \o "/" \o repo

Absent == [kind |-> "absent"]
Malformed == [kind |-> "malformed"]
Entry(ts, content) == [kind |-> "entry", timestamp |-> ts, content |-> content]

\* json.dump raises TypeError on a value that is no JSON type
JsonSerializable(rec) == \A p \in rec.metadata : p.v.kind # "date"

\* json.loads(json.dumps(key)) for a dict key: every key comes back a str
JsonKey(key) == Str(key.text)

\* json.loads(json.dumps(d)) for a dict: keys are coerced to str
JsonDict(d) == {[k |-> JsonKey(p.k), v |-> p.v] : p \in d}

\* what json.load returns for the "content" that json.dump wrote
JsonRoundTrip(rec) == [rec EXCEPT !.metadata = JsonDict(rec.metadata)]

\* save_cache: the file after open(path, "w") and json.dump. json.dump writes
\* the document in chunks, so a TypeError leaves a truncated document behind.
save_cache(content, t) ==
    IF JsonSerializable(content)
    THEN [raised |-> "", file |-> Entry(t, JsonRoundTrip(content))]
    ELSE [raised |-> "TypeError", file |-> Malformed]

\* mutant of Expired: ">=" for ">"
Expired_at_ttl(age) == age >= TTL

\* the TTL test of load_cache
Expired(age) == age > TTL

\* load_cache: None when the file is missing or older than the TTL, the stored
\* content otherwise; json.load and data["timestamp"] raise on a malformed file.
load_cache(file, t) ==
    IF file.kind = "absent" THEN [raised |-> "", value |-> None, age |-> -1]
    ELSE IF file.kind = "malformed"
    THEN [raised |-> "JSONDecodeError", value |-> None, age |-> -1]
    ELSE IF Expired(t - file.timestamp)
    THEN [raised |-> "", value |-> None, age |-> t - file.timestamp]
    ELSE [raised |-> "", value |-> file.content, age |-> t - file.timestamp]

-----------------------------------------------------------------------------
(* Remote Fetcher: fetch_file *)

Ok(t) == [kind |-> "ok", text |-> t]
Fail == [kind |-> "fail"]
Error == [kind |-> "error"]

Request(filename, branch, resp) ==
    [file |-> filename, branch |-> branch, resp |-> resp.kind]

\* fetch_file, given the answers the two branches would give: the requests
\* made, and the text returned, None, or the exception requests.get raised.
fetch_file(filename, rmain, rmaster) ==
    LET q1 == Request(filename, BRANCHES[1], rmain)
        q2 == Request(filename, BRANCHES[2], rmaster)
    IN  IF rmain.kind = "error"
        THEN [raised |-> "ConnectionError", value |-> None, reqs |-> <<q1>>]
        ELSE IF rmain.kind = "ok"
        THEN [raised |-> "", value |-> Text(rmain.text), reqs |-> <<q1>>]
        ELSE IF rmaster.kind = "error"
        THEN [raised |-> "ConnectionError", value |-> None, reqs |-> <<q1, q2>>]
        ELSE IF rmaster.kind = "ok"
        THEN [raised |-> "", value |-> Text(rmaster.text), reqs |-> <<q1, q2>>]
        ELSE [raised |-> "", value |-> None, reqs |-> <<q1, q2>>]

\* Python truthiness of a fetched body: None and "" are falsy
Truthy(c) == c.kind = "text" /\ c.text # <<>>

-----------------------------------------------------------------------------
(* Metadata Extractor *)

\* yaml.safe_load of a front-matter block
yaml_safe_load(block) ==
    LET n == Len(block)
        kinds == {block[i].t : i \in 1..n}
    IN  IF "bad" \in kinds \/ Cardinality(kinds) > 1 THEN [kind |-> "error"]
        ELSE IF kinds = {"kv"}
        THEN [kind |-> "dict",
              d |-> {[k |-> block[i].k, v |-> block[i].v] : i \in
                       {i \in 1..n : \A j \in (i+1)..n : block[j].k # block[i].k}}]
        ELSE [kind |-> "other"]

\* extract_front_matter: re.search(r"---(.*?)---"), then yaml.safe_load
extract_front_matter(content) ==
    LET dashes == {i \in 1..Len(content) : content[i] = Dash}
    IN  IF Cardinality(dashes) < 2 THEN {}
        ELSE LET i == CHOOSE i \in dashes : \A j \in dashes : i <= j
                 j == CHOOSE j \in dashes \ {i} : \A l \in dashes \ {i} : j <= l
                 data == yaml_safe_load(SubSeq(content, i + 1, j - 1))
             IN  IF data.kind = "dict" THEN data.d ELSE {}

\* mutant of license_patterns: the bare GPL pattern comes before the versions
license_patterns_generic_first == <<
    [matches |-> {"Apache 2.0", "Apache 2"}, label |-> "Apache 2.0"],
    [matches |-> {"MIT License"}, label |-> "MIT"],
    [matches |-> {"GPL", "GPL v3", "GPL v2"}, label |-> "GPL"],
    [matches |-> {"LGPL v3"}, label |-> "LGPL 3.0"],
    [matches |-> {"AGPL v3"}, label |-> "AGPL 3.0"],
    [matches |-> {"GPL v3", "GPLv3", "LGPL v3", "AGPL v3"}, label |-> "GPL 3.0"],
    [matches |-> {"GPL v2", "LGPL v2", "AGPL v2"}, label |-> "GPL 2.0"],
    [matches |-> {"Creative Commons"}, label |-> "Creative Commons"],
    [matches |-> {"CC BY-SA"}, label |-> "CC BY-SA"],
    [matches |-> {"CC BY", "CC BY-SA"}, label |-> "CC BY"] >>

\* license_patterns: compiled pattern (as the set of phrases it matches), label
license_patterns == <<
    [matches |-> {"Apache 2.0", "Apache 2"}, label |-> "Apache 2.0"],
    [matches |-> {"MIT License"}, label |-> "MIT"],
    [matches |-> {"LGPL v3"}, label |-> "LGPL 3.0"],
    [matches |-> {"AGPL v3"}, label |-> "AGPL 3.0"],
    [matches |-> {"GPL v3", "GPLv3", "LGPL v3", "AGPL v3"}, label |-> "GPL 3.0"],
    [matches |-> {"GPL v2", "LGPL v2", "AGPL v2"}, label |-> "GPL 2.0"],
    [matches |-> {"GPL", "GPL v3", "GPL v2"}, label |-> "GPL"],
    [matches |-> {"Creative Commons"}, label |-> "Creative Commons"],
    [matches |-> {"CC BY-SA"}, label |-> "CC BY-SA"],
    [matches |-> {"CC BY", "CC BY-SA"}, label |-> "CC BY"] >>

\* pattern.search(content)
Search(pattern, content) ==
    \E i \in 1..Len(content) :
        content[i].t = "prose" /\ content[i].text \in pattern.matches

\* str.lower() on the link names that occur
Lower(name) ==
    CASE name = "Jane Doe" -> "jane doe"
      [] name = "Sam Roe" -> "sam roe"
      [] name = "Repo Link" -> "repo link"
      [] name = "GitHub" -> "github"
      [] name = "Twitter" -> "twitter"
      [] name = "Download PDF" -> "download pdf"
      [] name = "X" -> "x"
      [] name = "Meetup.com" -> "meetup.com"
      [] OTHER -> name

\* x in lower_name, for the words of line 145
Within(x, lower_name) ==
    <<x, lower_name>> \in {<<"repo", "repo link">>, <<"github", "github">>,
                           <<"download", "download pdf">>}

\* mutant of ResourceWords: "repo" is missing from the list
ResourceWords_without_repo == {"download", "github", "http", "license"}

\* line 145: the words that mark a link to a resource
ResourceWords == {"download", "repo", "github", "http", "license"}

\* the text between the parentheses of a link
TargetText(target) ==
    IF target.scheme = "mailto" THEN "mailto:" \o target.url ELSE target.url

\* "### Leaders" in content or "## Leaders" in content
IsLeadersFile(content) ==
    \E i \in 1..Len(content) :
        /\ content[i].t = "heading"
        /\ content[i].title = "Leaders"
        /\ content[i].marks \in {"##", "###"}

\* leader_pattern: \*\s*\[name\]\(mailto:email\)
MatchesLeaderPattern(line) ==
    line.t = "bullet" /\ line.link.target.scheme = "mailto"

\* leader_simple_pattern: ^\s*\*\s*\[name\]\(target\)\s*$
MatchesSimplePattern(line) == line.t = "bullet"

MailEntry(link) ==
    Dict({[k |-> Str("name"), v |-> Str(link.name)],
          [k |-> Str("email"), v |-> Str(link.target.url)]})
NameEntry(name) == Dict({[k |-> Str("name"), v |-> Str(name)]})

RECURSIVE MailLeaders(_, _)
\* lines 135-136: one entry per match of leader_pattern, from line i on
MailLeaders(content, i) ==
    IF i > Len(content) THEN <<>>
    ELSE (IF MatchesLeaderPattern(content[i])
          THEN <<MailEntry(content[i].link)>> ELSE <<>>)
         \o MailLeaders(content, i + 1)

RECURSIVE SimpleLeaders(_, _, _)
\* lines 139-146: the matches of leader_simple_pattern from line i on, added
\* to leaders unless the name is there already or looks like a resource
SimpleLeaders(leaders, content, i) ==
    IF i > Len(content) THEN leaders
    ELSE LET line == content[i]
             add ==
                /\ MatchesSimplePattern(line)
                /\ ~\E j \in 1..Len(leaders) :
                      Get(leaders[j].d, Str("name")) = Str(line.link.name)
                /\ ~\E x \in ResourceWords : Within(x, Lower(line.link.name))
         IN  SimpleLeaders(IF add THEN Append(leaders, NameEntry(line.link.name))
                           ELSE leaders,
                           content, i + 1)

\* lines 126-149: the leaders_list field
LeadersField(content) ==
    IF ~IsLeadersFile(content) THEN {}
    ELSE LET leaders == SimpleLeaders(MailLeaders(content, 1), content, 1)
         IN  IF leaders = <<>> THEN {}
             ELSE {[k |-> Str("leaders_list"), v |-> List(leaders)]}

RECURSIVE Links(_, _)
\* the markdown links of the text from line i on, in order
Links(content, i) ==
    IF i > Len(content) THEN <<>>
    ELSE (IF content[i].t \in {"bullet", "dashed", "inline"}
          THEN <<content[i].link>> ELSE <<>>)
         \o Links(content, i + 1)

\* social_patterns: platform, the link names and the hosts its pattern accepts
social_patterns == <<
    [name |-> "twitter", names |-> {"twitter", "x"}, hosts |-> {"twitter.com", "x.com"}],
    [name |-> "facebook", names |-> {"facebook"},
     hosts |-> {"facebook.com", "www.facebook.com"}],
    [name |-> "linkedin", names |-> {"linkedin"},
     hosts |-> {"linkedin.com", "www.linkedin.com"}],
    [name |-> "youtube", names |-> {"youtube"},
     hosts |-> {"youtube.com", "www.youtube.com"}],
    [name |-> "meetup", names |-> {"meetup", "meetup.com"},
     hosts |-> {"meetup.com", "www.meetup.com"}] >>

SocialMatch(pattern, link) ==
    /\ Lower(link.name) \in pattern.names
    /\ link.target.scheme = "https"
    /\ link.target.host \in pattern.hosts

\* lines 160-163: the first match of every platform's pattern
SocialFields(content) ==
    LET links == Links(content, 1)
        hits(q) == {i \in 1..Len(links) : SocialMatch(social_patterns[q], links[i])}
    IN  {[k |-> Str("social_" \o social_patterns[q].name),
          v |-> Str(links[CHOOSE i \in hits(q) : \A j \in hits(q) : i <= j].target.url)] :
            q \in {q \in 1..Len(social_patterns) : hits(q) # {}}}

\* lines 166-173: the if/elif chain of classification keywords
classification_rules == <<
    [matches |-> {"Flagship Project"}, label |-> "Flagship"],
    [matches |-> {"Lab Project", "Lab project"}, label |-> "Lab"],
    [matches |-> {"Incubator Project", "Incubator project"}, label |-> "Incubator"],
    [matches |-> {"Production Project"}, label |-> "Production"] >>

\* type_patterns, in the order of the dict
type_patterns == <<
    [matches |-> {"<i class=\"fas fa-tools\"></i>"}, label |-> "Tool"],
    [matches |-> {"<i class=\"fas fa-book\"></i>"}, label |-> "Documentation"],
    [matches |-> {"<i class=\"fas fa-code\"></i>"}, label |-> "Code"] >>

\* lines 189-194: the audience keywords, in the order they are tested
audience_patterns == <<
    [matches |-> {"Breaker"}, label |-> "Breaker"],
    [matches |-> {"Builder"}, label |-> "Builder"],
    [matches |-> {"Defender"}, label |-> "Defender"] >>

\* the label of the first pattern of an ordered list that is found in the text
FirstMatch(patterns, content, field) ==
    LET hits == {i \in 1..Len(patterns) : Search(patterns[i], content)}
    IN  IF hits = {} THEN {}
        ELSE LET first == CHOOSE i \in hits : \A j \in hits : i <= j
             IN  {[k |-> Str(field), v |-> Str(patterns[first].label)]}

RECURSIVE AllMatches(_, _, _)
\* the labels of all patterns found in the text, from pattern i on
AllMatches(patterns, content, i) ==
    IF i > Len(patterns) THEN <<>>
    ELSE (IF Search(patterns[i], content) THEN <<Str(patterns[i].label)>> ELSE <<>>)
         \o AllMatches(patterns, content, i + 1)

\* lines 188-196: the audience field
AudienceField(content) ==
    LET audiences == AllMatches(audience_patterns, content, 1)
    IN  IF audiences = <<>> THEN {}
        ELSE {[k |-> Str("audience"), v |-> List(audiences)]}

RECURSIVE TargetsAt(_, _, _)
\* the targets of those links i.. of a list whose index is in keep, in order
TargetsAt(links, keep, i) ==
    IF i > Len(links) THEN <<>>
    ELSE (IF i \in keep THEN <<Str(TargetText(links[i].target))>> ELSE <<>>)
         \o TargetsAt(links, keep, i + 1)

\* download_pattern: \[Download[^\]]*\]\(target\), ignoring case
IsDownload(link) == Lower(link.name) \in {"download", "download pdf"}

\* lines 199-202: the download_links field
DownloadField(content) ==
    LET links == Links(content, 1)
        downloads == TargetsAt(links, {i \in 1..Len(links) : IsDownload(links[i])}, 1)
    IN  IF downloads = <<>> THEN {}
        ELSE {[k |-> Str("download_links"), v |-> List(downloads)]}

\* a line holding "##" or "###"
IsSectionMark(line) == line.t = "heading" /\ line.marks \in {"##", "###"}

\* repo_pattern: \[name\]\(https?://github\.com/...\)
IsGithubLink(link) == link.target.scheme = "https" /\ link.target.host = "github.com"

\* lines 205-211: the code_repositories field, from the links between the
\* first "Code Repository" heading and the next heading
CodeRepositoriesField(content) ==
    LET heads == {i \in 1..Len(content) :
                    /\ IsSectionMark(content[i])
                    /\ content[i].title \in {"Code Repository", "Code Repositories"}}
    IN  IF heads = {} THEN {}
        ELSE LET from == CHOOSE i \in heads : \A j \in heads : i <= j
                 later == {i \in (from + 1)..Len(content) : IsSectionMark(content[i])}
                 to == IF later = {} THEN Len(content)
                       ELSE (CHOOSE i \in later : \A j \in later : i <= j) - 1
                 links == Links(SubSeq(content, from, to), 1)
                 repos == TargetsAt(links,
                                    {i \in 1..Len(links) : IsGithubLink(links[i])}, 1)
             IN  IF repos = <<>> THEN {}
                 ELSE {[k |-> Str("code_repositories"), v |-> List(repos)]}

\* parse_sidebar_content: every field is set only when its pattern matches
parse_sidebar_content(content) ==
    IF content = <<>> THEN {}
    ELSE LeadersField(content)
         \cup SocialFields(content)
         \cup FirstMatch(classification_rules, content, "project_classification")
         \cup FirstMatch(type_patterns, content, "sidebar_type")
         \cup AudienceField(content)
         \cup DownloadField(content)
         \cup CodeRepositoriesField(content)
         \cup FirstMatch(license_patterns, content, "license")

-----------------------------------------------------------------------------
(* Repository Scanner: the record scan_repo builds on a cache miss *)

\* ", ".join(source_files) if source_files else None
JoinNames(names) ==
    IF names = <<>> THEN None
    ELSE IF Len(names) = 1 THEN Str(names[1])
    ELSE IF Len(names) = 2 THEN Str(names[1] \o ", " \o names[2])
    ELSE Str(names[1] \o ", " \o names[2] \o ", " \o names[3])

\* fetch_sidebar_files keeps a body only when it is truthy
KeepTruthy(c) == IF Truthy(c) THEN c ELSE None

\* lines 255-284 of scan_repo: content is the index body or None, info and
\* leaders are the entries of sidebar_files or None
BuildResult(owner, repo, archived, content, info, leaders) ==
    LET metadata == IF Truthy(content) THEN extract_front_matter(content.text) ELSE {}
        info_data == IF info.kind = "text" THEN parse_sidebar_content(info.text) ELSE {}
        leaders_data ==
            IF leaders.kind = "text" THEN parse_sidebar_content(leaders.text) ELSE {}
        source_files ==
            (IF Truthy(content) THEN <<"index.md">> ELSE <<>>)
            \o (IF info.kind = "text" THEN <<"info.md">> ELSE <<>>)
            \o (IF leaders.kind = "text" THEN <<"leaders.md">> ELSE <<>>)
    IN  [repo |-> repo_id(owner, repo),
         source_file |-> JoinNames(source_files),
         metadata |-> metadata,
         sidebar_metadata |-> Update(info_data, leaders_data),
         archived |-> archived]

\* cached["archived"] = archived
RefreshArchived(cached, archived) == [cached EXCEPT !.archived = archived]

\* mutant of FileAfterLookup: a hit stores the refreshed record again
FileAfterLookup_resaved(file, got, archived, t) ==
    IF got.raised = "" /\ got.value # None
    THEN save_cache(RefreshArchived(got.value, archived), t).file
    ELSE file

\* lines 249-253 of scan_repo: load_cache only reads, and the hit branch
\* changes the dict in memory and returns without a save_cache
FileAfterLookup(file, got, archived, t) == file

-----------------------------------------------------------------------------
(* Aggregator: the row main builds from one record *)

RECURSIVE JoinStr(_)
\* ", ".join(strings)
JoinStr(strings) ==
    IF strings = <<>> THEN ""
    ELSE IF Len(strings) = 1 THEN strings[1]
    ELSE strings[1] \o ", " \o JoinStr(Tail(strings))

\* json.dumps(value), kept as the value it encodes
JsonDumps(value) == [kind |-> "str", text |-> "json", json |-> value]

\* lines 318-328 of main: the cell a sidebar value is flattened to
Flatten(key, value) ==
    IF value.kind # "list" THEN value
    ELSE IF \A i \in 1..Len(value.items) : value.items[i].kind = "dict"
    THEN IF key = Str("leaders_list")
         THEN Str(JoinStr([i \in 1..Len(value.items) |->
                             GetOr(value.items[i].d, Str("name"), Str("")).text]))
         ELSE JsonDumps(value)
    ELSE Str(JoinStr([i \in 1..Len(value.items) |-> value.items[i].text]))

\* lines 308-328 of main
BuildRow(res) ==
    LET base == {[k |-> Str("repo"), v |-> Str(res.repo)],
                 [k |-> Str("source_file"), v |-> res.source_file],
                 [k |-> Str("archived"), v |-> Bool(res.archived)]}
        flat == {[k |-> p.k, v |-> Flatten(p.k, p.v)] : p \in res.sidebar_metadata}
    IN  Update(Update(base, res.metadata), flat)

\* all_keys[k] += 1 for every k of a dict, on a defaultdict(int)
Count(counts, d) ==
    {[k |-> p.k, v |-> IF p.k \in Keys(d) THEN p.v + 1 ELSE p.v] : p \in counts}
    \cup {[k |-> key, v |-> 1] : key \in Keys(d) \ Keys(counts)}

\* {k for item in all_metadata for k in item.keys()}
FieldUnion(rows) == UNION {Keys(rows[i]) : i \in 1..Len(rows)}

\* the number a Python int or bool stands for in a comparison
NumberOf(v) ==
    IF v.kind = "bool" THEN (IF v.text = "True" THEN 1 ELSE 0)
    ELSE CASE v.text = "0" -> 0 [] v.text = "1" -> 1 [] OTHER -> 2

\* a == b in Python: bool is a subclass of int, so 0 == False and 1 == True
PyEq(a, b) ==
    \/ a = b
    \/ /\ a.kind \in {"int", "bool"}
       /\ b.kind \in {"int", "bool"}
       /\ NumberOf(a) = NumberOf(b)

\* the cell of a field that is present
Mark == "v"

\* line 371: f in item and item[f] not in [None, "", [], False]
Present(item, f) ==
    /\ f \in Keys(item)
    /\ ~\E x \in {None, Str(""), List(<<>>), Bool(FALSE)} : PyEq(Get(item, f), x)

\* line 365: the fields of the matrix
MatrixFields(rows) ==
    FieldUnion(rows) \ {Str("repo"), Str("source_file"), Str("archived")}

\* lines 368-372: the matrix rows
MatrixRows(rows) ==
    [i \in 1..Len(rows) |->
       [repo |-> Get(rows[i], Str("repo")),
        archived |-> GetOr(rows[i], Str("archived"), Bool(FALSE)),
        cells |-> [f \in MatrixFields(rows) |->
                     IF Present(rows[i], f) THEN Mark ELSE ""]]]

\* sorted() raises TypeError when the keys are not all str
Sortable(keys) == \A key \in keys : key.kind = "str"

-----------------------------------------------------------------------------
(* Inputs *)

\* the repository names a listing can return
RepoNames == {"www-project-a", "www-project-b"}
Owner == CHOOSE org \in ORGS : TRUE
PathOf(r) == cache_path(Owner, r)
CachePaths == {PathOf(r) : r \in RepoNames}

\* the readings the clock can give: 0, +1min, +24h, +24h+1s
Instants == {0, 60, TTL, TTL + 1}

\* organisations: one whose repositories carry only an index.md, one with a
\* single repository that carries all three documents
Worlds == {
    [repos |-> RepoNames, index |-> {IndexIntKey, IndexDate},
     info |-> {}, leaders |-> {}],
    [repos |-> {"www-project-a"}, index |-> {IndexTitle, IndexList, IndexBad},
     info |-> {InfoMIT}, leaders |-> {LeadersGPL}] }

\* organisations of one repository whose documents have empty bodies, values
\* that are empty, false or zero, and front-matter fields named like the
\* columns main sets
RichWorlds == {
    [repos |-> {"www-project-a"}, index |-> {IndexTitle, IndexValues, <<>>},
     info |-> {<<>>}, leaders |-> {LeadersGPL}],
    [repos |-> {"www-project-a"}, index |-> {IndexRepo, IndexZero},
     info |-> {InfoFull}, leaders |-> {InfoLeaders}] }

\* what a raw-content request can answer: 200 with a body, another status, or
\* a transport error
Responses(texts) == {Ok(t) : t \in texts} \cup {Fail, Error}

-----------------------------------------------------------------------------
(* State *)

NoTask == [pc |-> "none", archived |-> FALSE, log |-> <<>>, content |-> None,
           info |-> None, leaders |-> None, result |-> None, error |-> "",
           hit |-> FALSE, age |-> -1]

\* no call of fetch_repos_from_org, no pool and no extraction under study
NoListing == [pc |-> "none"]
NoPool == [pc |-> "none"]
NoSidebar == [pc |-> "none"]

Finished(r) == task[r].pc \in {"done", "raised"}
Running(r) == task[r].pc \in {"fetch_index", "fetch_sidebars", "store"}
Submitted == {r \in RepoNames : task[r].pc # "none"}

KeyOwners == {"OWASP", "a", "a__b"}
KeyNames == {"www-project-a", "c", "b__c"}
KeyPairs == KeyOwners \X KeyNames

PipeInit ==
    /\ now = 0
    /\ cache = [path \in CachePaths |-> Absent]
    /\ run = 0
    /\ mainpc = "idle"
    /\ task = [r \in RepoNames |-> NoTask]
    /\ collected = {}
    /\ all_metadata = <<>>
    /\ all_keys = {}
    /\ sidebar_keys = {}
    /\ reports = None
    /\ produced = [r \in RepoNames |-> None]

Init ==
    /\ remote \in Worlds
    /\ PipeInit
    /\ kin = <<>>
    /\ kout = <<>>
    /\ listing = NoListing
    /\ pool = NoPool
    /\ sidebar = NoSidebar

\* main, lines 290-301: the listing yields the repositories with their archived
\* flags and every one of them is submitted to the pool
MainStart ==
    /\ mainpc \in {"idle", "finished", "scan_failed", "sort_failed"}
    /\ run < MaxRuns
    /\ \E list \in SUBSET remote.repos : \E flags \in [list -> BOOLEAN] :
         task' = [r \in RepoNames |->
                    IF r \in list
                    THEN [NoTask EXCEPT !.pc = "pending", !.archived = flags[r]]
                    ELSE NoTask]
    /\ run' = run + 1
    /\ mainpc' = "collecting"
    /\ collected' = {}
    /\ all_metadata' = <<>>
    /\ all_keys' = {}
    /\ sidebar_keys' = {}
    /\ reports' = None
    /\ UNCHANGED <<remote, now, cache, produced, kin, kout, listing, pool, sidebar>>

\* a pool worker is free to take the next submitted call
WorkerFree == Cardinality({r \in RepoNames : Running(r)}) < max_workers

\* scan_repo, lines 245-253: the cache lookup and the return on a hit
ScanStart(r) ==
    /\ task[r].pc = "pending"
    /\ WorkerFree
    /\ \E t \in Instants : t >= now /\ now' = t
    /\ LET got == load_cache(cache[PathOf(r)], now')
       IN  /\ task' = [task EXCEPT ![r] =
             IF got.raised # ""
             THEN [@ EXCEPT !.pc = "raised", !.error = got.raised]
             ELSE IF got.value # None
             THEN [@ EXCEPT !.pc = "done", !.age = got.age, !.hit = TRUE,
                            !.result = RefreshArchived(got.value, task[r].archived)]
             ELSE [@ EXCEPT !.pc = "fetch_index", !.age = got.age]]
           /\ cache' = [cache EXCEPT ![PathOf(r)] =
                          FileAfterLookup(@, got, task[r].archived, now')]
    /\ UNCHANGED <<remote, run, mainpc, collected, all_metadata, all_keys,
                   sidebar_keys, reports, produced, kin, kout, listing, pool, sidebar>>

\* scan_repo, line 255: fetch_index_md
FetchIndex(r) ==
    /\ task[r].pc = "fetch_index"
    /\ \E rmain, rmaster \in Responses(remote.index) :
         LET got == fetch_file("index.md", rmain, rmaster)
         IN  task' = [task EXCEPT ![r] =
               IF got.raised # ""
               THEN [@ EXCEPT !.pc = "raised", !.error = got.raised,
                              !.age = -1, !.log = @ \o got.reqs]
               ELSE [@ EXCEPT !.pc = "fetch_sidebars", !.content = got.value,
                              !.age = -1, !.log = @ \o got.reqs]]
    /\ UNCHANGED <<remote, now, cache, run, mainpc, collected, all_metadata, all_keys,
                   sidebar_keys, reports, produced, kin, kout, listing, pool, sidebar>>

\* scan_repo, line 259: fetch_sidebar_files (info.md, then leaders.md)
FetchSidebars(r) ==
    /\ task[r].pc = "fetch_sidebars"
    /\ \E imain, imaster \in Responses(remote.info) :
       \E lmain, lmaster \in Responses(remote.leaders) :
         LET i == fetch_file("info.md", imain, imaster)
             l == fetch_file("leaders.md", lmain, lmaster)
         IN  task' = [task EXCEPT ![r] =
               IF i.raised # ""
               THEN [@ EXCEPT !.pc = "raised", !.error = i.raised,
                              !.log = @ \o i.reqs]
               ELSE IF l.raised # ""
               THEN [@ EXCEPT !.pc = "raised", !.error = l.raised,
                              !.log = @ \o i.reqs \o l.reqs]
               ELSE [@ EXCEPT !.pc = "store", !.info = KeepTruthy(i.value),
                              !.leaders = KeepTruthy(l.value),
                              !.log = @ \o i.reqs \o l.reqs]]
    /\ UNCHANGED <<remote, now, cache, run, mainpc, collected, all_metadata, all_keys,
                   sidebar_keys, reports, produced, kin, kout, listing, pool, sidebar>>

\* scan_repo, lines 256-287: extraction, save_cache and the return
Store(r) ==
    /\ task[r].pc = "store"
    /\ \E t \in Instants : t >= now /\ now' = t
    /\ LET result == BuildResult(Owner, r, task[r].archived, task[r].content,
                                 task[r].info, task[r].leaders)
           saved == save_cache(result, now')
       IN  /\ cache' = [cache EXCEPT ![PathOf(r)] = saved.file]
           /\ task' = [task EXCEPT ![r] =
                IF saved.raised # ""
                THEN [@ EXCEPT !.pc = "raised", !.error = saved.raised,
                               !.content = None, !.info = None, !.leaders = None]
                ELSE [@ EXCEPT !.pc = "done", !.result = result,
                               !.content = None, !.info = None, !.leaders = None]]
           /\ produced' = IF saved.raised # "" THEN produced
                          ELSE [produced EXCEPT ![r] = result]
    /\ UNCHANGED <<remote, run, mainpc, collected, all_metadata, all_keys,
                   sidebar_keys, reports, kin, kout, listing, pool, sidebar>>

\* mutant of LoopEnded: the loop is left after the first future
LoopEnded_after_first == collected # {}

\* the for loop over as_completed(futures) has yielded every future
LoopEnded == collected = Submitted

\* the executor's shutdown(wait=True) on leaving the with block returns
PoolJoined == \A r \in Submitted : Finished(r)

\* main, lines 303-338: one iteration of the loop over as_completed(futures);
\* fut.result() re-raises the exception of a scan that raised
Collect(r) ==
    /\ mainpc = "collecting"
    /\ r \in Submitted \ collected
    /\ Finished(r)
    /\ collected' = collected \cup {r}
    /\ IF task[r].pc = "raised"
       THEN /\ mainpc' = "unwinding"
            /\ UNCHANGED <<all_metadata, all_keys, sidebar_keys>>
       ELSE LET res == task[r].result
            IN  /\ all_metadata' = Append(all_metadata, BuildRow(res))
                /\ all_keys' = Count(all_keys, res.metadata)
                /\ sidebar_keys' = Count(sidebar_keys, res.sidebar_metadata)
                /\ mainpc' = "collecting"
    /\ UNCHANGED <<remote, now, cache, run, task, reports, produced, kin, kout, listing, pool, sidebar>>

\* main, line 300: leaving the with block, normally or with the exception
LeavePool ==
    /\ \/ mainpc = "collecting" /\ LoopEnded /\ mainpc' = "aggregate"
       \/ mainpc = "unwinding" /\ mainpc' = "scan_failed"
    /\ PoolJoined
    /\ UNCHANGED <<remote, now, cache, run, task, collected, all_metadata, all_keys,
                   sidebar_keys, reports, produced, kin, kout, listing, pool, sidebar>>

\* main, lines 340-383: the field union, metadata.csv, metadata.json, the
\* summary and the presence matrix
WriteReports ==
    /\ mainpc = "aggregate"
    /\ IF all_metadata # <<>> /\ ~Sortable(FieldUnion(all_metadata))
       THEN /\ mainpc' = "sort_failed"
            /\ UNCHANGED reports
       ELSE /\ mainpc' = "finished"
            /\ reports' = [kind |-> "written",
                           csv_fields |-> FieldUnion(all_metadata),
                           metadata_json |-> all_metadata,
                           summary_front |-> all_keys,
                           summary_sidebar |-> sidebar_keys,
                           matrix_fields |-> MatrixFields(all_metadata),
                           matrix |-> MatrixRows(all_metadata)]
    /\ UNCHANGED <<remote, now, cache, run, task, collected, all_metadata, all_keys,
                   sidebar_keys, produced, kin, kout, listing, pool, sidebar>>

Next ==
    \/ MainStart
    \/ \E r \in RepoNames : ScanStart(r)
    \/ \E r \in RepoNames : FetchIndex(r)
    \/ \E r \in RepoNames : FetchSidebars(r)
    \/ \E r \in RepoNames : Store(r)
    \/ \E r \in RepoNames : Collect(r)
    \/ LeavePool
    \/ WriteReports

Spec == Init /\ [][Next]_vars

\* the pipeline against the organisations of RichWorlds
RichInit ==
    /\ remote \in RichWorlds
    /\ PipeInit
    /\ kin = <<>>
    /\ kout = <<>>
    /\ listing = NoListing
    /\ pool = NoPool
    /\ sidebar = NoSidebar

SpecRich == RichInit /\ [][Next]_vars

-----------------------------------------------------------------------------
(* cache_path on its own: two (owner, repo) pairs and the paths derived *)

KeyInit ==
    /\ remote \in Worlds
    /\ PipeInit
    /\ kin \in KeyPairs \X KeyPairs
    /\ kout = <<>>
    /\ listing = NoListing
    /\ pool = NoPool
    /\ sidebar = NoSidebar

DeriveKeys ==
    /\ kout = <<>>
    /\ kout' = <<cache_path(kin[1][1], kin[1][2]), cache_path(kin[2][1], kin[2][2])>>
    /\ UNCHANGED <<remote, now, cache, run, mainpc, task, collected, all_metadata,
                   all_keys, sidebar_keys, reports, produced, kin, listing, pool, sidebar>>

KeyNext == DeriveKeys

SpecKey == KeyInit /\ [][KeyNext]_vars

-----------------------------------------------------------------------------
(* fetch_repos_from_org on its own: one call against a paginated endpoint *)

\* a repository object of the listing: a JSON object with a name and, unless
\* the endpoint leaves it out, an archived flag
ApiRepo(name, archived) ==
    {[k |-> "name", v |-> name], [k |-> "archived", v |-> archived]}
ApiRepoNoFlag(name) == {[k |-> "name", v |-> name]}

\* what the listing endpoint can answer to one page request: 200 with a JSON
\* array, another status, or a transport error
Page(batch) == [kind |-> "page", batch |-> batch]
ListBatches == {<<>>,
                <<ApiRepo("www-project-a", TRUE)>>,
                <<ApiRepoNoFlag("www-project-b"), ApiRepo("www-project-a", FALSE)>>}
ListResponses == {Page(b) : b \in ListBatches} \cup {Fail, Error}

\* the loop of the model stops asking at this page number
PageCap == MaxPages + 2

\* the answer of the endpoint to the request for page p: pages after MaxPages
\* all get the same answer
PageAt(l, p) == IF p <= MaxPages THEN l.endpoint[p] ELSE l.beyond

\* line 81: the entry appended for one repository object
ListEntry(org, repo) ==
    [owner |-> org, repo |-> Get(repo, "name"),
     archived |-> GetOr(repo, "archived", FALSE)]

\* lines 80-81: repos after the for loop over a batch
ExtendRepos(repos, org, batch) ==
    repos \o [i \in 1..Len(batch) |-> ListEntry(org, batch[i])]

\* mutant of NextPage: a page number is skipped
NextPage_skip(page) == page + 2

\* line 83: page += 1
NextPage(page) == page + 1

ListInit ==
    /\ remote \in Worlds
    /\ PipeInit
    /\ kin = <<>>
    /\ kout = <<>>
    /\ pool = NoPool
    /\ sidebar = NoSidebar
    /\ \E endpoint \in [1..MaxPages -> ListResponses] :
       \E beyond \in {Page(<<>>), Page(<<ApiRepo("www-project-a", FALSE)>>)} :
         listing = [pc |-> "loop", org |-> Owner, endpoint |-> endpoint,
                    beyond |-> beyond, page |-> 1, repos |-> <<>>, reqs |-> <<>>,
                    returned |-> <<>>]

\* fetch_repos_from_org, lines 69-83: one iteration of the while loop
ListRequest ==
    /\ listing.pc = "loop"
    /\ listing.page <= PageCap
    /\ LET r == PageAt(listing, listing.page)
           asked == [listing EXCEPT !.reqs = Append(@, listing.page)]
       IN  listing' =
             IF r.kind = "error" THEN [asked EXCEPT !.pc = "raised"]
             ELSE IF r.kind # "page" THEN [asked EXCEPT !.pc = "broke"]
             ELSE IF r.batch = <<>> THEN [asked EXCEPT !.pc = "broke"]
             ELSE [asked EXCEPT !.repos = ExtendRepos(@, listing.org, r.batch),
                                !.page = NextPage(@)]
    /\ UNCHANGED <<remote, now, cache, run, mainpc, task, collected, all_metadata,
                   all_keys, sidebar_keys, reports, produced, kin, kout, pool, sidebar>>

\* fetch_repos_from_org, lines 85-86: the log line and the return
ListReturn ==
    /\ listing.pc = "broke"
    /\ listing' = [listing EXCEPT !.pc = "returned", !.returned = listing.repos]
    /\ UNCHANGED <<remote, now, cache, run, mainpc, task, collected, all_metadata,
                   all_keys, sidebar_keys, reports, produced, kin, kout, pool, sidebar>>

ListNext == ListRequest \/ ListReturn

SpecList == ListInit /\ [][ListNext]_vars

\* the call runs on the main thread, which nothing else can hold up: a request
\* that can be made is made, and a loop that was left goes on to the return
SpecListFair == SpecList /\ WF_vars(ListRequest) /\ WF_vars(ListReturn)

-----------------------------------------------------------------------------
(* The executor on its own: calls of scan_repo submitted to the pool of main *)

\* the numbers of repositories main may have listed
ListSizes == {0, 1, max_workers, MaxSubmitted}

\* mutant of ThreadAllowed: the pool starts a thread for every call
ThreadAllowed_always(threads) == TRUE

\* ThreadPoolExecutor(max_workers=20): submit starts a new worker thread only
\* while fewer than max_workers exist
ThreadAllowed(threads) == threads < max_workers

PoolInit ==
    /\ remote \in Worlds
    /\ PipeInit
    /\ kin = <<>>
    /\ kout = <<>>
    /\ listing = NoListing
    /\ sidebar = NoSidebar
    /\ \E n \in ListSizes :
         pool = [pc |-> "submitting", repos |-> n, queued |-> 0, threads |-> 0,
                 running |-> 0, fetching |-> 0, returned |-> 0]

PoolFrame ==
    UNCHANGED <<remote, now, cache, run, mainpc, task, collected, all_metadata,
                all_keys, sidebar_keys, reports, produced, kin, kout, listing, sidebar>>

\* main, line 301: ex.submit(scan_repo, r) for the next repository; the call
\* is queued, and a thread is started for it unless a thread is waiting for
\* work or max_workers threads exist
PoolSubmit ==
    /\ pool.pc = "submitting"
    /\ pool.queued + pool.running + pool.returned < pool.repos
    /\ \E start \in BOOLEAN :
         /\ start => ThreadAllowed(pool.threads)
         /\ ~start => pool.threads > pool.running
         /\ pool' = [pool EXCEPT !.queued = @ + 1,
                                 !.threads = IF start THEN @ + 1 ELSE @]
    /\ PoolFrame

\* main, line 303: every call is submitted, main waits in as_completed
PoolSubmitted ==
    /\ pool.pc = "submitting"
    /\ pool.queued + pool.running + pool.returned = pool.repos
    /\ pool' = [pool EXCEPT !.pc = "collecting"]
    /\ PoolFrame

\* a worker thread without a call takes the next queued call and enters scan_repo
PoolTake ==
    /\ pool.queued > 0
    /\ pool.threads > pool.running
    /\ pool' = [pool EXCEPT !.queued = @ - 1, !.running = @ + 1]
    /\ PoolFrame

\* scan_repo, lines 255-259: a running scan sends a document request
PoolRequest ==
    /\ pool.fetching < pool.running
    /\ pool' = [pool EXCEPT !.fetching = @ + 1]
    /\ PoolFrame

\* fetch_file, lines 92-95: requests.get of a running scan returns or raises
PoolResponse ==
    /\ pool.fetching > 0
    /\ pool' = [pool EXCEPT !.fetching = @ - 1]
    /\ PoolFrame

\* scan_repo, lines 253 and 287: a scan that is not waiting for a response ends
PoolReturn ==
    /\ pool.running > pool.fetching
    /\ pool' = [pool EXCEPT !.running = @ - 1, !.returned = @ + 1]
    /\ PoolFrame

PoolNext ==
    \/ PoolSubmit
    \/ PoolSubmitted
    \/ PoolTake
    \/ PoolRequest
    \/ PoolResponse
    \/ PoolReturn

SpecPool == PoolInit /\ [][PoolNext]_vars

-----------------------------------------------------------------------------
(* The sidebar extraction on its own: lines 259-276 of scan_repo on the bodies
   of info.md and leaders.md *)

\* the lines a leaders.md is made of
LinePool ==
    {Heading("###", "Leaders"), Heading("#", "Leaders"),
     Bullet(JaneMail), Bullet(JanePage), Bullet(SamPage), Bullet(RepoLink),
     Dashed(SamMail), Prose("GPL v3"), Prose("GPL"), Prose("LGPL v3")}

\* every text of at most MaxLines lines
SidebarTexts == UNION {[1..n -> LinePool] : n \in 0..MaxLines}

\* what fetch_file returned for info.md: None or a body
InfoBodies == {None, Text(InfoMIT), Text(InfoFull), Text(InfoLeaders)}

SidebarInit ==
    /\ remote \in Worlds
    /\ PipeInit
    /\ kin = <<>>
    /\ kout = <<>>
    /\ listing = NoListing
    /\ pool = NoPool
    /\ \E info \in InfoBodies : \E leaders \in SidebarTexts :
         sidebar = [pc |-> "fetched", info |-> info, leaders |-> Text(leaders),
                    info_data |-> {}, leaders_data |-> {}, merged |-> {}]

\* what parse_sidebar_content is called with and returns for one sidebar file
ParsedFile(body) ==
    IF Truthy(body) THEN parse_sidebar_content(body.text) ELSE {}

\* scan_repo, lines 259-276, for the two bodies fetched
SidebarExtract ==
    /\ sidebar.pc = "fetched"
    /\ LET res == BuildResult(Owner, "www-project-a", FALSE, None,
                              KeepTruthy(sidebar.info), KeepTruthy(sidebar.leaders))
       IN  sidebar' = [sidebar EXCEPT !.pc = "merged",
                          !.info_data = ParsedFile(sidebar.info),
                          !.leaders_data = ParsedFile(sidebar.leaders),
                          !.merged = res.sidebar_metadata]
    /\ UNCHANGED <<remote, now, cache, run, mainpc, task, collected, all_metadata,
                   all_keys, sidebar_keys, reports, produced, kin, kout, listing, pool>>

SidebarNext == SidebarExtract

SpecSidebar == SidebarInit /\ [][SidebarNext]_vars

-----------------------------------------------------------------------------
(* Properties *)

\* the "repo" cell of a flattened row
RowRepo(row) == Get(row, Str("repo")).text

\* main has left the with block of the executor
PoolLeft == mainpc \in {"aggregate", "finished", "sort_failed", "scan_failed"}

\* a scan that went past the cache lookup as a miss and has ended
MissEnded(r) == Finished(r) /\ ~task[r].hit /\ task[r].error # "JSONDecodeError"

\* C1: once main is past the collection loop, the output holds exactly one
\* row per submitted repository, and each repository's "owner/name" is the
\* repo of exactly one row.
C1_Completeness ==
    PoolLeft =>
        /\ Len(all_metadata) = Cardinality(Submitted)
        /\ \A r \in Submitted :
             Cardinality({i \in 1..Len(all_metadata) :
                            RowRepo(all_metadata[i]) = repo_id(Owner, r)}) = 1

\* C2: a failure inside one scan neither aborts the batch nor leaves a
\* repository without a record: no run ends on a scan's exception, and every
\* scan that has ended has returned a record.
C2_FailureIsolated ==
    /\ mainpc # "scan_failed"
    /\ \A r \in Submitted : Finished(r) => task[r].pc = "done"

\* C3: a scan that hits the cache issues no document request and returns the
\* record the writing scan produced, identical in every field except archived,
\* which is the archived flag of the current listing entry.
C3_Idempotent ==
    \A r \in Submitted :
        task[r].hit =>
            /\ task[r].log = <<>>
            /\ task[r].result = [produced[r] EXCEPT !.archived = task[r].archived]

\* C4: load_cache applies the TTL when it reads: an existing entry is a miss
\* exactly when its age exceeds 24 hours, a hit returns the stored record; an
\* entry aged 24h+1s is a miss and one aged 23h59m is a hit.
C4_TTLAtRead ==
    \A r \in Submitted :
        LET t == task[r]
            looked == t.age >= 0
            missed == t.pc = "fetch_index"
        IN  /\ (looked /\ missed) => t.age > 24 * 3600
            /\ (looked /\ ~missed) =>
                  /\ t.hit /\ t.age <= 24 * 3600
                  /\ cache[PathOf(r)].kind = "entry"
                  /\ [t.result EXCEPT !.archived = cache[PathOf(r)].content.archived]
                        = cache[PathOf(r)].content
            /\ t.age = 24 * 3600 + 1 => missed
            /\ t.age = 23 * 3600 + 59 * 60 => t.hit

\* C4 witness: in one run, an entry aged 23h59m was a hit and an entry aged
\* 24h+1s was a miss.
C4_Witness ==
    \E r1, r2 \in Submitted :
        /\ task[r1].hit /\ task[r1].age = 23 * 3600 + 59 * 60
        /\ task[r2].pc = "fetch_index" /\ task[r2].age = 24 * 3600 + 1

\* C5: every scan that missed the cache and whose fetches all returned ends
\* with its record stored under its key, stamped with the time of the write.
C5_MissWrites ==
    \A r \in Submitted :
        (MissEnded(r) /\ task[r].error # "ConnectionError") =>
            /\ task[r].pc = "done"
            /\ cache[PathOf(r)].kind = "entry"
            /\ cache[PathOf(r)].content = JsonRoundTrip(task[r].result)

\* C6 as claimed: no aggregation step, row building and occurrence counting
\* included, happens while a submitted scan is still pending or running.
C6_FullBarrier ==
    (all_metadata # <<>> \/ all_keys # {} \/ PoolLeft \/ reports # None)
        => PoolJoined

\* C6 amended: the field union and the reports are computed only after every
\* submitted scan has returned and its row has been collected.
C6_ReportBarrier ==
    (mainpc \in {"aggregate", "finished", "sort_failed"} \/ reports # None) =>
        /\ \A r \in Submitted : task[r].pc = "done" /\ r \in collected
        /\ Len(all_metadata) = Cardinality(Submitted)

\* C6 witness: the reports of a run over two repositories have been written.
C6_Witness ==
    /\ reports # None
    /\ Cardinality(Submitted) = 2
    /\ Len(reports.metadata_json) = 2

\* C7: concurrent scans of distinct repositories do not disturb each other's
\* cache entries: every entry holds a record of its own repository, the one
\* its latest writing scan produced, and a scan that has written in this run
\* finds its own record under its key.
C7_OwnWrites ==
    \A r \in RepoNames :
        LET f == cache[PathOf(r)]
        IN  /\ f.kind = "entry" =>
                 /\ f.content.repo = repo_id(Owner, r)
                 /\ f.content = JsonRoundTrip(produced[r])
            /\ (task[r].pc = "done" /\ ~task[r].hit) =>
                 /\ f.kind = "entry"
                 /\ f.content = JsonRoundTrip(task[r].result)

\* C7 witness: two scans of one run have both written, at different times,
\* records that differ beyond the repository name.
C7_Witness ==
    \E r1, r2 \in Submitted :
        /\ r1 # r2
        /\ task[r1].pc = "done" /\ ~task[r1].hit
        /\ task[r2].pc = "done" /\ ~task[r2].hit
        /\ task[r1].result.metadata # task[r2].result.metadata
        /\ cache[PathOf(r1)].timestamp # cache[PathOf(r2)].timestamp

\* C8: a malformed cache file is a cache miss: no scan ends on the exception
\* that reading it raises.
C8_MalformedIsMiss ==
    \A r \in Submitted : task[r].error # "JSONDecodeError"

\* C9: two different (owner, name) pairs never get the same cache path.
C9_CollisionFree ==
    (kout # <<>> /\ kin[1] # kin[2]) => kout[1] # kout[2]

\* C10: fetch_file asks main, then master, each at most once and nothing after
\* a success, and a branch that fails by transport error counts as failed: the
\* call goes on and returns, it does not raise.
C10_BranchFallback ==
    \A r \in Submitted :
        LET log == task[r].log
        IN  /\ \A i \in 1..Len(log) :
                 /\ log[i].branch = "master" =>
                       /\ i > 1
                       /\ log[i-1].file = log[i].file
                       /\ log[i-1].branch = "main"
                       /\ log[i-1].resp # "ok"
                 /\ (log[i].branch = "main" /\ i > 1) => log[i-1].file # log[i].file
            /\ task[r].error # "ConnectionError"

\* a page that ends the listing: an empty page or a non-success status
StoppingPage(resp) ==
    resp.kind = "fail" \/ (resp.kind = "page" /\ resp.batch = <<>>)

RECURSIVE EntriesUpTo(_, _)
\* one entry per repository of pages 1..n, in order
EntriesUpTo(l, n) ==
    IF n = 0 THEN <<>>
    ELSE EntriesUpTo(l, n - 1)
         \o [i \in 1..Len(PageAt(l, n).batch) |->
               [owner |-> l.org, repo |-> Get(PageAt(l, n).batch[i], "name"),
                archived |-> IF "archived" \in Keys(PageAt(l, n).batch[i])
                             THEN Get(PageAt(l, n).batch[i], "archived")
                             ELSE FALSE]]

\* the pages are asked for as 1, 2, 3, ...; no page is asked for after an empty
\* page or a non-success status; the loop is left on such a page, and the call
\* returns the entries of all pages before it, in order
C11_InOrder ==
    LET l == listing
        n == Len(l.reqs)
    IN  /\ \A i \in 1..n : l.reqs[i] = i
        /\ \A i \in 1..(n - 1) : ~StoppingPage(PageAt(l, i))
        /\ l.pc = "loop" => \A i \in 1..n : ~StoppingPage(PageAt(l, i))
        /\ l.pc \in {"broke", "returned"} => n >= 1 /\ StoppingPage(PageAt(l, n))
        /\ l.pc = "returned" => l.returned = EntriesUpTo(l, n - 1)

\* the endpoint answers some page with an empty page or a non-success status
EndpointStops == \E p \in 1..PageCap : StoppingPage(PageAt(listing, p))

\* C11: fetch_repos_from_org asks for pages 1, 2, 3, ... in order, stops at the
\* first empty or non-success page and asks for none after it, returns one
\* entry per repository of every page before it, in order, and its loop ends
\* whenever the endpoint answers some page with an empty page or a non-success
\* status.
C11_Pagination ==
    /\ []C11_InOrder
    /\ (listing.pc = "loop" /\ EndpointStops) ~> (listing.pc # "loop")

\* C11 witness: two non-empty pages were received, the third answered with a
\* non-success status, and the call returned the three entries of the first two.
C11_Witness ==
    /\ listing.pc = "returned"
    /\ listing.reqs = <<1, 2, 3>>
    /\ PageAt(listing, 3).kind = "fail"
    /\ Len(listing.returned) = 3

\* C12: at no time do more than 20 scans execute, nor are more than 20
\* document requests in flight, however many repositories were submitted.
C12_PoolBound ==
    /\ pool.running <= 20
    /\ pool.fetching <= 20
    /\ pool.threads <= 20

\* C12 witness: 22 repositories were listed, 20 scans execute, each with a
\* request in flight, and calls are still waiting in the queue.
C12_Witness ==
    /\ pool.repos = 22
    /\ pool.running = 20
    /\ pool.fetching = 20
    /\ pool.queued > 0

\* C13: the merged sidebar_metadata has exactly the fields that info.md or
\* leaders.md yielded; a field both yielded has the leaders.md value, a field
\* of one document has that document's value.
C13_LeadersWin ==
    sidebar.pc = "merged" =>
        /\ Keys(sidebar.merged) = Keys(sidebar.info_data) \cup Keys(sidebar.leaders_data)
        /\ \A key \in Keys(sidebar.merged) :
             Get(sidebar.merged, key) =
                IF key \in Keys(sidebar.leaders_data)
                THEN Get(sidebar.leaders_data, key)
                ELSE Get(sidebar.info_data, key)

\* C13 witness: both documents yield a license, with different values, the
\* merged license is the one of leaders.md, and each document has a field the
\* other has not.
C13_Witness ==
    /\ sidebar.pc = "merged"
    /\ Str("license") \in Keys(sidebar.info_data) \cap Keys(sidebar.leaders_data)
    /\ Get(sidebar.info_data, Str("license")) = Str("Apache 2.0")
    /\ Get(sidebar.leaders_data, Str("license")) = Str("GPL 3.0")
    /\ Get(sidebar.merged, Str("license")) = Str("GPL 3.0")
    /\ Keys(sidebar.info_data) \ Keys(sidebar.leaders_data) # {}
    /\ Keys(sidebar.leaders_data) \ Keys(sidebar.info_data) # {}

\* the rows and the matrix written by a run that got to its end
Written == reports # None /\ reports.metadata_json # <<>>

\* C14: a cell of the presence matrix is marked exactly when the field exists
\* on the repository's row and its value is none of None, "", [] and False.
C14_CellRule ==
    Written =>
        \A i \in 1..Len(reports.matrix) : \A f \in reports.matrix_fields :
            LET item == reports.metadata_json[i]
            IN  (reports.matrix[i].cells[f] = "v") <=>
                   /\ f \in Keys(item)
                   /\ Get(item, f) \notin {None, Str(""), List(<<>>), Bool(FALSE)}

\* the position of a document in the order scan_repo fetches them
FetchRank(file) ==
    CASE file = "index.md" -> 1 [] file = "info.md" -> 2 [] file = "leaders.md" -> 3

\* the documents a scan has asked for so far
Asked(r) == {task[r].log[i].file : i \in 1..Len(task[r].log)}

\* C15: every scan follows CHECK_CACHE -> (HIT -> DONE) | (MISS -> FETCH_INDEX
\* -> FETCH_SIDEBARS -> EXTRACT -> STORE -> DONE): nothing is fetched before
\* the cache check or on a hit, index.md is asked for before info.md and that
\* before leaders.md, the store comes after all three, and a scan whose
\* fetches all returned ends in DONE with a record.
C15_StateMachine ==
    \A r \in Submitted :
        LET t == task[r]
        IN  /\ (t.pc = "pending" \/ t.hit) => t.log = <<>>
            /\ \A i, j \in 1..Len(t.log) :
                 i < j => FetchRank(t.log[i].file) <= FetchRank(t.log[j].file)
            /\ t.pc = "fetch_index" => Asked(r) = {}
            /\ t.pc = "fetch_sidebars" => Asked(r) = {"index.md"}
            /\ t.pc = "store" => Asked(r) = {"index.md", "info.md", "leaders.md"}
            /\ (t.pc = "done" /\ ~t.hit) =>
                 /\ Asked(r) = {"index.md", "info.md", "leaders.md"}
                 /\ cache[PathOf(r)].kind = "entry"
            /\ (Finished(r) /\ t.error # "ConnectionError") =>
                 t.pc = "done" /\ t.result # None

\* some branch answered the scan's request for a document with a success status
Succeeded(r, file) ==
    \E i \in 1..Len(task[r].log) :
        task[r].log[i].file = file /\ task[r].log[i].resp = "ok"

\* the documents whose fetch succeeded, in the order index, info, leaders
FetchedNames(r) ==
    (IF Succeeded(r, "index.md") THEN <<"index.md">> ELSE <<>>)
    \o (IF Succeeded(r, "info.md") THEN <<"info.md">> ELSE <<>>)
    \o (IF Succeeded(r, "leaders.md") THEN <<"leaders.md">> ELSE <<>>)

\* C16: the record of a cache miss names exactly the documents whose fetch
\* succeeded, a success with an empty body included, in the order index.md,
\* info.md, leaders.md, and names none when no fetch succeeded; a document
\* that is absent does not keep the others from being fetched and recorded.
C16_SourceFiles ==
    \A r \in Submitted :
        (task[r].pc = "done" /\ ~task[r].hit) =>
            /\ Asked(r) = {"index.md", "info.md", "leaders.md"}
            /\ task[r].result.source_file =
                  IF FetchedNames(r) = <<>> THEN None
                  ELSE Str(JoinStr(FetchedNames(r)))

\* the phrases of a text
Phrases(text) == {text[i].text : i \in {i \in 1..Len(text) : text[i].t = "prose"}}

\* the license patterns that match a text, by their position in the list
LicenseHits(text) ==
    {i \in 1..Len(license_patterns) : Phrases(text) \cap license_patterns[i].matches # {}}

\* what C17 says of one text and the fields extracted from it
LicenseByOrder(text, data) ==
    LET hits == LicenseHits(text)
    IN  /\ hits = {} => Str("license") \notin Keys(data)
        /\ hits # {} =>
             /\ Str("license") \in Keys(data)
             /\ \E i \in hits :
                  /\ \A j \in hits : i <= j
                  /\ Get(data, Str("license")) = Str(license_patterns[i].label)
        /\ {"GPL v3", "GPL"} \subseteq Phrases(text) =>
             /\ Get(data, Str("license")) # Str("GPL")
             /\ "LGPL v3" \notin Phrases(text) =>
                  Get(data, Str("license")) = Str("GPL 3.0")

HasLeadersHeader(text) ==
    \E i \in 1..Len(text) :
        text[i] \in {Heading("##", "Leaders"), Heading("###", "Leaders")}

\* the leader list extracted from a text, empty when the field is not set
LeaderList(data) ==
    IF Str("leaders_list") \in Keys(data) THEN Get(data, Str("leaders_list")).items
    ELSE <<>>

\* the name of a link looks like a link to a resource
ResourceLike(name) ==
    \E x \in {"download", "repo", "github", "http", "license"} : Within(x, Lower(name))

RECURSIVE EntriesAt(_, _, _, _)
\* for the lines i.. of a text: a {name, email} entry for every line in mails,
\* a {name} entry for every line in bares
EntriesAt(text, mails, bares, i) ==
    IF i > Len(text) THEN <<>>
    ELSE (IF i \in mails
          THEN <<Dict({[k |-> Str("name"), v |-> Str(text[i].link.name)],
                       [k |-> Str("email"), v |-> Str(text[i].link.target.url)]})>>
          ELSE IF i \in bares
          THEN <<Dict({[k |-> Str("name"), v |-> Str(text[i].link.name)]})>>
          ELSE <<>>)
         \o EntriesAt(text, mails, bares, i + 1)

\* the list C18 describes, given which lines count as mailto links: their
\* entries in order, then the bare name links "* [name](target)" whose name is
\* not in the list yet and is not resource-like
LeadersFrom(text, mails) ==
    LET names == {text[i].link.name : i \in mails}
        bares == {i \in 1..Len(text) :
                    /\ text[i].t = "bullet"
                    /\ text[i].link.name \notin names
                    /\ ~ResourceLike(text[i].link.name)
                    /\ \A j \in 1..(i - 1) :
                         text[j].t = "bullet" => text[j].link.name # text[i].link.name}
    IN  EntriesAt(text, mails, {}, 1) \o EntriesAt(text, {}, bares, 1)

\* every line that holds a link to a mailto: target
MailtoLinks(text) ==
    {i \in 1..Len(text) :
        /\ text[i].t \in {"bullet", "dashed", "inline"}
        /\ text[i].link.target.scheme = "mailto"}

\* the lines "* [name](mailto:email)"
MailtoBullets(text) ==
    {i \in MailtoLinks(text) : text[i].t = "bullet"}

\* the texts parsed and the fields extracted from each
ParsedSidebars ==
    IF sidebar.pc # "merged" THEN {}
    ELSE {<<sidebar.leaders.text, sidebar.leaders_data>>}
         \cup (IF Truthy(sidebar.info)
               THEN {<<sidebar.info.text, sidebar.info_data>>} ELSE {})

\* C18 as claimed: with a Leaders header the leader list has one {name, email}
\* entry per mailto link, in order, followed by the bare name links that are
\* neither in the list nor resource-like; without the header it is not set.
C18_PerLink ==
    \A p \in ParsedSidebars :
        /\ HasLeadersHeader(p[1]) => LeaderList(p[2]) = LeadersFrom(p[1], MailtoLinks(p[1]))
        /\ ~HasLeadersHeader(p[1]) => Str("leaders_list") \notin Keys(p[2])

\* C18 amended: with a "## Leaders" or "### Leaders" header the leader list has
\* one {name, email} entry per mailto link that follows an asterisk bullet, in
\* order, followed by one {name} entry per line "* [name](target)" whose name
\* is not in the list yet and is not resource-like; no name with an email
\* comes again as a bare entry; without the header, or when nothing matches,
\* no leader list is set.
C18_PerBullet ==
    \A p \in ParsedSidebars :
        /\ HasLeadersHeader(p[1]) => LeaderList(p[2]) = LeadersFrom(p[1], MailtoBullets(p[1]))
        /\ ~HasLeadersHeader(p[1]) => Str("leaders_list") \notin Keys(p[2])
        /\ Str("leaders_list") \in Keys(p[2]) => LeaderList(p[2]) # <<>>
        /\ \A i, j \in 1..Len(LeaderList(p[2])) :
             (Str("email") \in Keys(LeaderList(p[2])[i].d) /\ i # j
              /\ Str("email") \notin Keys(LeaderList(p[2])[j].d))
               => Get(LeaderList(p[2])[i].d, Str("name"))
                    # Get(LeaderList(p[2])[j].d, Str("name"))

\* C18 witness: leaders.md is "### Leaders", "* [Jane Doe](mailto:...)",
\* "* [Repo Link](https://github.com/x)" and yields Jane Doe alone; info.md
\* names Sam Roe twice and Jane Doe with and without an email and yields Jane
\* Doe with her email, then Sam Roe.
C18_Witness ==
    /\ sidebar.pc = "merged"
    /\ sidebar.leaders.text = <<Heading("###", "Leaders"), Bullet(JaneMail), Bullet(RepoLink)>>
    /\ LeaderList(sidebar.leaders_data) = <<MailEntry(JaneMail)>>
    /\ sidebar.info = Text(InfoLeaders)
    /\ LeaderList(sidebar.info_data) = <<MailEntry(JaneMail), NameEntry("Sam Roe")>>

\* C19: a cache hit does not write the cache: the step in which a scan hits
\* leaves every entry as it was, timestamp and stored archived flag included;
\* an entry changes only in the store of a scan that missed; so whenever an
\* entry is read more than 24 hours after the miss that wrote it, the read is
\* a miss, whatever hits came in between.
C19_HitKeepsEntry ==
    [][\A r \in RepoNames :
         /\ (task'[r].hit /\ ~task[r].hit) => cache' = cache
         /\ cache'[PathOf(r)] # cache[PathOf(r)] =>
              task[r].pc = "store" /\ ~task[r].hit
         /\ (/\ task[r].pc = "pending"
             /\ task'[r].pc # "pending"
             /\ cache[PathOf(r)].kind = "entry"
             /\ now' - cache[PathOf(r)].timestamp > 24 * 3600)
              => task'[r].pc = "fetch_index" /\ ~task'[r].hit]_vars

\* C19 witness: a scan hit an entry exactly 24 hours old whose stored archived
\* flag differs from the listing's; it returned the listing's flag, and the
\* entry still has the old flag and the timestamp of the miss that wrote it.
C19_Witness ==
    \E r \in Submitted :
        /\ run = 2
        /\ task[r].hit
        /\ task[r].age = 24 * 3600
        /\ cache[PathOf(r)].timestamp = 0
        /\ cache[PathOf(r)].content.archived # task[r].result.archived
        /\ cache[PathOf(r)].content = JsonRoundTrip(produced[r])

\* C20: for every record main has collected there is a row that has the
\* record's repo, source_file and archived values.
C20_RowIdentity ==
    \A r \in collected :
        task[r].pc = "done" =>
            \E i \in 1..Len(all_metadata) :
                /\ Get(all_metadata[i], Str("repo")) = Str(task[r].result.repo)
                /\ Get(all_metadata[i], Str("source_file")) = task[r].result.source_file
                /\ Get(all_metadata[i], Str("archived")) = Bool(task[r].result.archived)

====
